---- MODULE Spec2Model ----
(***************************************************************************)
(* Model of src/src/base.rs: the moving-average / dispersion functions     *)
(* (sma, ema, mstd, bollinger_band) and the BollingerBand aggregate        *)
(* (new, bb, bb_mut, per_b, bw).                                           *)
(*                                                                         *)
(* f64 is modelled as a binary floating-point number with a Precision-bit  *)
(* significand, round-to-nearest-even after every operation, +/-infinity   *)
(* and NaN, and an unbounded exponent (no overflow or underflow occurs on  *)
(* the inputs used).  The sign of zero is not modelled.                    *)
(* A value is <<k, m, e>>: k = 0 is the finite number m * 2^e in canonical *)
(* form (m odd, or m = 0 and e = 0), k = 1 is infinity with sign m, k = 2  *)
(* is NaN.                                                                 *)
(***************************************************************************)
EXTENDS Integers, Sequences, FiniteSets, TLC

\* ------------------------------------------------------------- bounds ----
\* bits of significand of the modelled f64 (odd, like 53)
Precision == 5
\* aggregate: longest input series, largest element, period and amplitude
MaxLen == 2
MaxVal == 1
MaxPeriod == 2
MaxAmp == 2
\* sma / mstd called on their own
MaxFnLen == 5
MaxFnVal == 2
MaxFnWindow == 3
\* ema called on its own
MaxEmaLen == 2
MaxEmaVal == 3
MaxEmaWindow == 9

\* ------------------------------------------------------ f64 arithmetic ----
Max(a, b) == IF a >= b THEN a ELSE b
Min(a, b) == IF a <= b THEN a ELSE b
Abs(a) == IF a < 0 THEN -a ELSE a
Sign(a) == IF a < 0 THEN -1 ELSE 1

RECURSIVE BitLen(_)
BitLen(n) == IF n = 0 THEN 0 ELSE 1 + BitLen(n \div 2)

Zero == <<0, 0, 0>>
NaN == <<2, 0, 0>>
Inf(s) == <<1, s, 0>>

IsNaN(x) == x[1] = 2
IsInf(x) == x[1] = 1
IsFinite(x) == x[1] = 0
IsZero(x) == x = Zero
FSign(x) == Sign(x[2])

RECURSIVE Canon(_, _)
Canon(m, e) ==
    IF m = 0 THEN Zero
    ELSE IF m % 2 = 0 THEN Canon(m \div 2, e + 1)
    ELSE <<0, m, e>>

\* s * (N / D) * 2^E rounded to Precision bits, ties to even (N >= 0, D > 0):
\* RoundKeep rounds the integer part m0 of the significand, given the dropped
\* bits rem (half is their midpoint) and the remainder r of the division
RoundKeep(s, m0, rem, half, r, E) ==
    Canon(s * (IF rem > half \/ (rem = half /\ (r > 0 \/ m0 % 2 = 1))
               THEN m0 + 1 ELSE m0), E)

RoundDrop(s, q, r, E, k) == RoundKeep(s, q \div 2^k, q % 2^k, 2^(k-1), r, E + k)

RoundQuot(s, q, r, E) == RoundDrop(s, q, r, E, BitLen(q) - Precision)

RoundShift(s, N, D, E, sh) == RoundQuot(s, (N * 2^sh) \div D, (N * 2^sh) % D, E - sh)

RoundQ(s, N, D, E) ==
    IF N = 0 THEN Zero
    ELSE RoundShift(s, N, D, E, Max(0, Precision + 1 + BitLen(D) - BitLen(N)))

\* `n as f64`
FromInt(n) == RoundQ(Sign(n), Abs(n), 1, 0)

FNeg(x) == <<x[1], -x[2], x[3]>>

\* exponent of the leading bit of a finite non-zero value, plus one
Top(x) == x[3] + BitLen(Abs(x[2]))

\* x + y for finite, non-zero x and y of comparable magnitude
AddAligned(x, y, e) ==
    LET S == x[2] * 2^(x[3] - e) + y[2] * 2^(y[3] - e)
    IN  RoundQ(Sign(S), Abs(S), 1, e)

\* x + y for finite, non-zero x and y whose leading bits are tx and ty
AddFinite(x, y, tx, ty) ==
    IF tx - ty > Precision + 2 THEN x
    ELSE IF ty - tx > Precision + 2 THEN y
    ELSE AddAligned(x, y, Min(x[3], y[3]))

FAdd(x, y) ==
    IF IsNaN(x) \/ IsNaN(y) THEN NaN
    ELSE IF IsInf(x) THEN (IF IsInf(y) /\ x[2] # y[2] THEN NaN ELSE x)
    ELSE IF IsInf(y) THEN y
    ELSE IF IsZero(x) THEN y
    ELSE IF IsZero(y) THEN x
    ELSE AddFinite(x, y, Top(x), Top(y))

FSub(x, y) == FAdd(x, FNeg(y))

FMul(x, y) ==
    IF IsNaN(x) \/ IsNaN(y) THEN NaN
    ELSE IF IsInf(x) \/ IsInf(y)
         THEN (IF IsZero(x) \/ IsZero(y) THEN NaN ELSE Inf(FSign(x) * FSign(y)))
    ELSE RoundQ(FSign(x) * FSign(y), Abs(x[2] * y[2]), 1, x[3] + y[3])

FDiv(x, y) ==
    IF IsNaN(x) \/ IsNaN(y) THEN NaN
    ELSE IF IsInf(x) THEN (IF IsInf(y) THEN NaN ELSE Inf(FSign(x) * FSign(y)))
    ELSE IF IsInf(y) THEN Zero
    ELSE IF IsZero(y) THEN (IF IsZero(x) THEN NaN ELSE Inf(FSign(x)))
    ELSE RoundQ(FSign(x) * FSign(y), Abs(x[2]), Abs(y[2]), x[3] - y[3])

\* largest r with r * r <= M, searched in lo .. hi-1
RECURSIVE ISqrtBS(_, _, _)
ISqrtBS(M, lo, hi) ==
    IF hi - lo <= 1 THEN lo
    ELSE LET mid == (lo + hi) \div 2
         IN  IF mid * mid <= M THEN ISqrtBS(M, mid, hi) ELSE ISqrtBS(M, lo, mid)

\* sqrt(M) * 2^E, given r = floor(sqrt(M)); an inexact root is never a tie
SqrtRound(M, E, r) == RoundQ(1, 2 * r + (IF r * r = M THEN 0 ELSE 1), 2, E)

SqrtScaled(M, E) == SqrtRound(M, E, ISqrtBS(M, 0, 2^(Precision + 4)))

SqrtShift(m1, e1, t) == SqrtScaled(m1 * 4^t, (e1 \div 2) - t)

\* sqrt(m1 * 2^e1), e1 even
SqrtEven(m1, e1) == SqrtShift(m1, e1, Max(0, (2 * Precision + 4 - BitLen(m1)) \div 2))

FSqrt(x) ==
    IF IsNaN(x) THEN NaN
    ELSE IF IsInf(x) THEN (IF x[2] > 0 THEN x ELSE NaN)
    ELSE IF IsZero(x) THEN Zero
    ELSE IF x[2] < 0 THEN NaN
    ELSE IF x[3] % 2 = 0 THEN SqrtEven(x[2], x[3])
    ELSE SqrtEven(2 * x[2], x[3] - 1)

\* f64 `==` and `<=`
FEq(x, y) == ~IsNaN(x) /\ ~IsNaN(y) /\ x = y
FLe(x, y) ==
    /\ IsFinite(x) /\ IsFinite(y)
    /\ LET e == Min(x[3], y[3])
       IN  x[2] * 2^(x[3] - e) <= y[2] * 2^(y[3] - e)

\* ------------------------------------------------------------ results ----
\* a call either returns a value or panics (index out of range, overflow)
Ok(val) == [ok |-> TRUE, val |-> val]
Panic == [ok |-> FALSE, val |-> <<>>]

Zeros(n) == [i \in 1..n |-> Zero]

SeqsUpTo(S, n) == UNION {[1..k -> S] : k \in 0..n}
FloatSeq(s) == [i \in 1..Len(s) |-> FromInt(s[i])]

VARIABLES
    period, amplitude, ubb, mbb, lbb,   \* the BollingerBand fields
    cached_input,                       \* argument of the last bb_mut call that returned
    last_write,                         \* what that call overwrote: "none" before any,
                                        \* "first", or a cache made from the "same" /
                                        \* from an "other" argument
    overflow_checks,                    \* build profile: usize overflow panics (debug) or wraps
    pc, op, arg, window_size, ret,      \* the call in progress / last call
    den                                 \* denominators used by the last per_b call

vars == <<period, amplitude, ubb, mbb, lbb, cached_input, last_write, overflow_checks,
          pc, op, arg, window_size, ret, den>>

NoInput == [some |-> FALSE, v |-> <<>>]
Input(v) == [some |-> TRUE, v |-> v]

\* ----------------------------------------------------- low level functions ----
\* (0 .. k).map(|x| v[x]).sum::<f64>()
RECURSIVE SumPrefix(_, _)
SumPrefix(v, k) == IF k = 0 THEN Zero ELSE FAdd(SumPrefix(v, k - 1), v[k])

\* second loop of sma: result[i] = result[i-1] + (v[i] - v[i-window_size]) / window_size
RECURSIVE sma_slide(_, _, _, _)
sma_slide(v, window_size_, result, i) ==
    IF i > Len(v) THEN result
    ELSE sma_slide(v, window_size_,
                   [result EXCEPT ![i] = FAdd(result[i-1],
                        FDiv(FSub(v[i], v[i - window_size_]), FromInt(window_size_)))],
                   i + 1)

\* first loop of sma: result[i] = mean of v[0 ..= i] for i < window_size
sma_warm(v, window_size_) ==
    [i \in 1..Len(v) |->
        IF i <= window_size_ THEN FDiv(SumPrefix(v, i), FromInt(i)) ELSE Zero]

\* sma whose first loop stops at the end of a short series
sma_clamped(v, window_size_) ==
    IF window_size_ = 0 /\ Len(v) > 0 THEN Panic
    ELSE Ok(sma_slide(v, window_size_, sma_warm(v, window_size_), window_size_ + 1))

sma(v, window_size_) ==
    IF window_size_ > Len(v) THEN Panic                 \* result[i], i >= v.len()
    ELSE IF window_size_ = 0 /\ Len(v) > 0 THEN Panic   \* result[i-1] with i = 0
    ELSE Ok(sma_slide(v, window_size_, sma_warm(v, window_size_), window_size_ + 1))

RECURSIVE ema_loop(_, _, _, _)
ema_loop(v, alpha, result, i) ==
    IF i > Len(v) THEN result
    ELSE ema_loop(v, alpha,
                  [result EXCEPT ![i] = FAdd(FMul(alpha, v[i]),
                        FMul(FSub(FromInt(1), alpha), result[i-1]))],
                  i + 1)

ema(v, window_size_) ==
    IF Len(v) = 0 THEN Panic                            \* result[0] = v[0]
    ELSE Ok(ema_loop(v, FDiv(FromInt(2), FAdd(FromInt(window_size_), FromInt(1))),
                     [Zeros(Len(v)) EXCEPT ![1] = v[1]], 2))

powi2(x) == FMul(x, x)

\* (0 .. window_size).map(|x| (v[i-x] - sma[i]).powi(2)).sum::<f64>()
RECURSIVE SumSq(_, _, _, _)
SumSq(v, sma_, i, k) ==
    IF k = 0 THEN Zero
    ELSE FAdd(SumSq(v, sma_, i, k - 1), powi2(FSub(v[i - (k - 1)], sma_[i])))

mstd(v, window_size_, sma_) ==
    IF window_size_ = 0
    THEN (IF overflow_checks THEN Panic ELSE Ok(Zeros(Len(v))))   \* window_size - 1
    ELSE IF window_size_ <= Len(v) /\ Len(sma_) < Len(v) THEN Panic   \* sma[i]
    ELSE Ok([i \in 1..Len(v) |->
                IF i >= window_size_
                THEN FSqrt(FDiv(SumSq(v, sma_, i, window_size_), FromInt(window_size_)))
                ELSE Zero])

bollinger_band(v, amplitude_, sma_, mstd_) ==
    IF Len(sma_) < Len(v) \/ Len(mstd_) < Len(v) THEN Panic     \* sma[i], mstd[i]
    ELSE Ok(<<[i \in 1..Len(v) |-> FAdd(sma_[i], FMul(amplitude_, mstd_[i]))],
              [i \in 1..Len(v) |-> FSub(sma_[i], FMul(amplitude_, mstd_[i]))]>>)

\* ------------------------------------------------- BollingerBand aggregate ----
new(period_, amplitude_) ==
    [period |-> period_, amplitude |-> amplitude_,
     ubb |-> <<>>, mbb |-> <<>>, lbb |-> <<>>]

Self == [period |-> period, amplitude |-> amplitude,
         ubb |-> ubb, mbb |-> mbb, lbb |-> lbb]

get_ubb(self) == self.ubb
get_lbb(self) == self.lbb
get_mbb(self) == self.mbb

\* bb, line 57: (ubb, sma, lbb)
bb_tuple(sma_, bands) ==
    IF ~bands.ok THEN Panic ELSE Ok(<<bands.val[1], sma_, bands.val[2]>>)

\* bb, line 56
bb_bands(self, v, sma_, m) ==
    IF ~m.ok THEN Panic
    ELSE bb_tuple(sma_, bollinger_band(v, self.amplitude, sma_, m.val))

\* bb, line 55
bb_mstd(self, v, s) ==
    IF ~s.ok THEN Panic ELSE bb_bands(self, v, s.val, mstd(v, self.period, s.val))

bb(self, v) == bb_mstd(self, v, sma(v, self.period))

\* bb_mut that leaves out `self.mbb = mbb`
bb_store_no_mbb(self, r) ==
    IF ~r.ok THEN Panic
    ELSE Ok([self EXCEPT !.ubb = r.val[1], !.lbb = r.val[3]])

\* bb_mut that extends the cached series instead of replacing them
bb_store_extend(self, r) ==
    IF ~r.ok THEN Panic
    ELSE Ok([self EXCEPT !.ubb = self.ubb \o r.val[1], !.mbb = self.mbb \o r.val[2],
                         !.lbb = self.lbb \o r.val[3]])

\* bb_mut, lines 62-64: the aggregate with the three series stored
bb_store(self, r) ==
    IF ~r.ok THEN Panic
    ELSE Ok([self EXCEPT !.ubb = r.val[1], !.mbb = r.val[2], !.lbb = r.val[3]])

\* the aggregate after bb_mut(v)
bb_mut(self, v) == bb_store(self, bb(self, v))

\* 1e-3
Epsilon == RoundQ(1, 1, 1000, 0)

\* per_b, lines 80-88: <<numerator, denominator>> at every index, cached bands
per_b_cached(self, v) ==
    IF Len(v) > Len(get_ubb(self)) \/ Len(v) > Len(get_lbb(self))
    THEN Panic                                                  \* ubb[i], lbb[i]
    ELSE Ok([i \in 1..Len(v) |->
                LET u == get_ubb(self)[i]
                    l == get_lbb(self)[i]
                IN  IF FEq(u, l)
                    THEN <<FSub(v[i], l), FAdd(FSub(u, l), Epsilon)>>
                    ELSE <<FSub(v[i], l), FSub(u, l)>>])

\* per_b, lines 90-93: <<numerator, denominator>> at every index, bands r = bb(v)
per_b_transient(v, r) ==
    IF ~r.ok THEN Panic
    ELSE Ok([i \in 1..Len(v) |->
                <<FSub(v[i], r.val[3][i]), FSub(r.val[1][i], r.val[3][i])>>])

per_b_terms(self, v) ==
    IF Len(get_ubb(self)) > 0
    THEN per_b_cached(self, v)
    ELSE per_b_transient(v, bb(self, v))

per_b_quot(t) ==
    IF ~t.ok THEN Panic
    ELSE Ok([i \in 1..Len(t.val) |-> FDiv(t.val[i][1], t.val[i][2])])

per_b(self, v) == per_b_quot(per_b_terms(self, v))

per_b_dens(t) == IF ~t.ok THEN <<>> ELSE [i \in 1..Len(t.val) |-> t.val[i][2]]

\* bw, lines 112-114
bw_cached(self, v) ==
    IF \/ Len(v) > Len(get_ubb(self))
       \/ Len(v) > Len(get_lbb(self))
       \/ Len(v) > Len(get_mbb(self))
    THEN Panic                                                  \* ubb[i], lbb[i], mbb[i]
    ELSE Ok([i \in 1..Len(v) |->
                FDiv(FSub(get_ubb(self)[i], get_lbb(self)[i]), get_mbb(self)[i])])

\* bw, lines 116-119
bw_transient(v, r) ==
    IF ~r.ok THEN Panic
    ELSE Ok([i \in 1..Len(v) |-> FDiv(FSub(r.val[1][i], r.val[3][i]), r.val[2][i])])

bw(self, v) ==
    IF Len(self.ubb) > 0 THEN bw_cached(self, v) ELSE bw_transient(v, bb(self, v))

\* ------------------------------------------------------ aggregate: actions ----
Series == {FloatSeq(s) : s \in SeqsUpTo(0..MaxVal, MaxLen)}
Ops == {"bb", "bb_mut", "per_b", "bw"}

Init ==
    /\ \E p \in 0..MaxPeriod, a \in 1..MaxAmp :
          \E self \in {new(p, FromInt(a))} :
              /\ period = self.period /\ amplitude = self.amplitude
              /\ ubb = self.ubb /\ mbb = self.mbb /\ lbb = self.lbb
    /\ cached_input = NoInput /\ last_write = "none"
    \* usize arithmetic can overflow only in `window_size - 1` with period = 0:
    \* with period >= 1 the two build profiles behave alike and one stands for both
    /\ overflow_checks \in (IF period = 0 THEN BOOLEAN ELSE {TRUE})
    /\ pc = "idle" /\ op = "new" /\ arg = <<>> /\ ret = Ok(<<>>)
    /\ window_size = 0 /\ den = <<>>

\* the caller picks the next method and its argument
Invoke ==
    /\ pc = "idle"
    /\ \E o \in Ops, v \in Series : op' = o /\ arg' = v
    /\ pc' = "called"
    /\ UNCHANGED <<period, amplitude, ubb, mbb, lbb, cached_input, last_write,
                   overflow_checks, window_size, ret, den>>

\* the caller is done with the returned value
Drop ==
    /\ pc = "returned"
    /\ pc' = "idle"
    /\ op' = "none" /\ arg' = <<>> /\ ret' = Ok(<<>>)
    /\ den' = <<>>
    /\ UNCHANGED <<period, amplitude, ubb, mbb, lbb, cached_input, last_write,
                   overflow_checks, window_size>>

Return(r) ==
    /\ ret' = r
    /\ pc' = IF r.ok THEN "returned" ELSE "panicked"
    /\ UNCHANGED <<overflow_checks, op, arg, window_size>>

Do_bb ==
    /\ pc = "called" /\ op = "bb"
    /\ Return(bb(Self, arg))
    /\ UNCHANGED <<period, amplitude, ubb, mbb, lbb, cached_input, last_write, den>>

Do_bb_mut ==
    /\ pc = "called" /\ op = "bb_mut"
    /\ \E r \in {bb_mut(Self, arg)} :
          /\ Return(IF r.ok THEN Ok(<<>>) ELSE Panic)
          /\ IF r.ok
             THEN /\ period' = r.val.period /\ amplitude' = r.val.amplitude
                  /\ ubb' = r.val.ubb /\ mbb' = r.val.mbb /\ lbb' = r.val.lbb
                  /\ cached_input' = Input(arg)
                  /\ last_write' = IF ~cached_input.some THEN "first"
                                   ELSE IF cached_input = Input(arg) THEN "same"
                                   ELSE "other"
             ELSE UNCHANGED <<period, amplitude, ubb, mbb, lbb, cached_input, last_write>>
    /\ UNCHANGED den

\* per_b that keeps the bands it computed when the cache was empty
Do_per_b_caching ==
    /\ pc = "called" /\ op = "per_b"
    /\ Return(per_b(Self, arg))
    /\ den' = per_b_dens(per_b_terms(Self, arg))
    /\ \E r \in {bb(Self, arg)} :
          IF Len(ubb) = 0 /\ r.ok
          THEN ubb' = r.val[1] /\ mbb' = r.val[2] /\ lbb' = r.val[3]
          ELSE UNCHANGED <<ubb, mbb, lbb>>
    /\ UNCHANGED <<period, amplitude, cached_input, last_write>>

Do_per_b ==
    /\ pc = "called" /\ op = "per_b"
    /\ Return(per_b(Self, arg))
    /\ den' = per_b_dens(per_b_terms(Self, arg))
    /\ UNCHANGED <<period, amplitude, ubb, mbb, lbb, cached_input, last_write>>

Do_bw ==
    /\ pc = "called" /\ op = "bw"
    /\ Return(bw(Self, arg))
    /\ UNCHANGED <<period, amplitude, ubb, mbb, lbb, cached_input, last_write, den>>

Next == Invoke \/ Drop \/ Do_bb \/ Do_bb_mut \/ Do_per_b \/ Do_bw

Spec == Init /\ [][Next]_vars

\* ------------------------------------------------- pure functions on their own ----
FnInputs ==
    {<<FloatSeq(s), w>> : s \in SeqsUpTo(0..MaxFnVal, MaxFnLen), w \in 0..MaxFnWindow}
    \cup
    {<<FloatSeq(s), w>> : s \in SeqsUpTo(0..MaxEmaVal, MaxEmaLen), w \in 0..MaxEmaWindow}

InitFn ==
    /\ \E in \in FnInputs : arg = in[1] /\ window_size = in[2]
    /\ overflow_checks \in BOOLEAN
    /\ pc = "idle" /\ op = "none" /\ ret = Ok(<<>>)
    /\ period = 0 /\ amplitude = Zero
    /\ ubb = <<>> /\ mbb = <<>> /\ lbb = <<>>
    /\ cached_input = NoInput /\ last_write = "none"
    /\ den = <<>>

FnReturn(o, r) ==
    /\ op' = o
    /\ ret' = r
    /\ pc' = IF r.ok THEN "returned" ELSE "panicked"
    /\ UNCHANGED <<period, amplitude, ubb, mbb, lbb, cached_input, last_write,
                   overflow_checks, arg, window_size, den>>

CallSma ==
    /\ pc = "idle"
    /\ FnReturn("sma", sma(arg, window_size))

CallEma ==
    /\ pc = "idle"
    /\ FnReturn("ema", ema(arg, window_size))

\* mstd(v, window_size, &sma(v, window_size))
mstd_of_sma(v, window_size_, s) ==
    IF ~s.ok THEN Panic ELSE mstd(v, window_size_, s.val)

CallMstd ==
    /\ pc = "idle"
    /\ FnReturn("mstd", mstd_of_sma(arg, window_size, sma(arg, window_size)))

NextFn == CallSma \/ CallEma \/ CallMstd

SpecFn == InitFn /\ [][NextFn]_vars

\* ------------------------------------------------------------------ claims ----
Uninitialized == ubb = <<>> /\ mbb = <<>> /\ lbb = <<>>
Computed == Len(ubb) > 0 /\ Len(mbb) > 0 /\ Len(lbb) > 0
Cache == <<ubb, mbb, lbb>>
CallOf(o) == pc = "called" /\ op = o

\* C1: a new aggregate is Uninitialized; only a returning bb_mut call takes it out
\* of Uninitialized (bb, per_b and bw never do); and once Computed it stays
\* Computed whatever is called, a recomputation overwriting the cache.
C1_Lifecycle ==
    /\ Uninitialized
    /\ [][/\ (Uninitialized /\ ~Uninitialized') => (CallOf("bb_mut") /\ pc' = "returned")
          /\ Computed => Computed']_vars

C1_Recomputed ==
    /\ pc = "returned" /\ op = "bb_mut"
    /\ Computed /\ last_write \in {"same", "other"}

\* C2: whenever any cached series is non-empty, ubb, mbb and lbb have the same
\* length, the length of the argument of the last bb_mut call.
C2_CacheLengths ==
    (Len(ubb) > 0 \/ Len(mbb) > 0 \/ Len(lbb) > 0) =>
        /\ cached_input.some
        /\ Len(ubb) = Len(cached_input.v)
        /\ Len(mbb) = Len(cached_input.v)
        /\ Len(lbb) = Len(cached_input.v)

C2_Overwritten ==
    /\ pc = "returned" /\ op = "bb_mut" /\ last_write = "other"
    /\ Len(arg) = MaxLen /\ Len(ubb) = MaxLen

\* the bands per_b works with: the cached ones, else those of bb(v)
BandsUsed == IF Len(ubb) > 0 THEN <<ubb, lbb>> ELSE <<bb(Self, arg).val[1], bb(Self, arg).val[3]>>

\* C3: per_b never divides by zero, with cached bands or with transient ones: where
\* upper[i] == lower[i] the denominator is upper[i] - lower[i] + 1e-3 and the result
\* is finite, elsewhere the denominator is upper[i] - lower[i].
C3_EpsilonGuard ==
    (pc = "returned" /\ op = "per_b") =>
        \A i \in 1..Len(arg) :
            /\ ~IsZero(den[i])
            /\ FEq(BandsUsed[1][i], BandsUsed[2][i]) =>
                  /\ den[i] = FAdd(FSub(BandsUsed[1][i], BandsUsed[2][i]), Epsilon)
                  /\ IsFinite(ret.val[i])
            /\ ~FEq(BandsUsed[1][i], BandsUsed[2][i]) =>
                  den[i] = FSub(BandsUsed[1][i], BandsUsed[2][i])

\* C4: bb, per_b and bw change no field of the aggregate, cache empty or not; only
\* bb_mut writes ubb, mbb and lbb, and nothing changes period or amplitude.
C4_Frame ==
    [][/\ (CallOf("bb") \/ CallOf("per_b") \/ CallOf("bw")) =>
              UNCHANGED <<period, amplitude, ubb, mbb, lbb>>
       /\ Cache' # Cache => CallOf("bb_mut")
       /\ UNCHANGED <<period, amplitude>>]_vars

C4_TransientNotStored ==
    /\ pc = "returned" /\ op = "per_b"
    /\ Uninitialized /\ Len(ret.val) = MaxLen

\* C5: a call of bb, bb_mut, per_b or bw with 1 <= period <= len(v) returns, after
\* any earlier calls, and its series have the length of v.
C5_Total ==
    (pc \in {"returned", "panicked"} /\ op \in Ops /\ 1 <= period /\ period <= Len(arg)) =>
        /\ pc = "returned"
        /\ op = "bb" =>
              \A k \in 1..3 : Len(ret.val[k]) = Len(arg)
        /\ op = "bb_mut" =>
              Len(ubb) = Len(arg) /\ Len(mbb) = Len(arg) /\ Len(lbb) = Len(arg)
        /\ op \in {"per_b", "bw"} =>
              Len(ret.val) = Len(arg)

\* C6: bb_mut called with the argument of the bb_mut call before it returns and
\* leaves ubb, mbb and lbb exactly as they were.
C6_Idempotent ==
    [][(CallOf("bb_mut") /\ cached_input = Input(arg) /\ pc' # pc) =>
            (pc' = "returned" /\ Cache' = Cache)]_vars

C6_CalledTwice ==
    /\ pc = "returned" /\ op = "bb_mut"
    /\ last_write = "same" /\ Computed /\ Len(arg) = MaxLen

\* the value of an element that holds an integer
IntOf(x) == x[2] * 2^x[3]

RECURSIVE IntSum(_, _, _)
IntSum(v, lo, hi) == IF lo > hi THEN 0 ELSE IntOf(v[hi]) + IntSum(v, lo, hi - 1)

\* the f64 nearest to the arithmetic mean of v[lo .. hi]
WindowMean(v, lo, hi) ==
    RoundQ(Sign(IntSum(v, lo, hi)), Abs(IntSum(v, lo, hi)), hi - lo + 1, 0)

\* C7: for 1 <= window <= len(v), sma(v, window)[i] is the arithmetic mean of
\* v[max(0, i-window+1) ..= i] at every index i.
C7_SmaIsWindowMean ==
    (pc # "idle" /\ op = "sma" /\ 1 <= window_size /\ window_size <= Len(arg)) =>
        /\ ret.ok
        /\ \A i \in 1..Len(arg) :
              ret.val[i] = WindowMean(arg, Max(1, i - window_size + 1), i)

\* C8: for a non-empty v and window >= 1, ema(v, window)[0] == v[0] and every
\* ema(v, window)[i] lies between the least and the greatest of v[0 ..= i].
C8_EmaBounded ==
    (pc # "idle" /\ op = "ema" /\ Len(arg) >= 1 /\ window_size >= 1) =>
        /\ ret.ok
        /\ ret.val[1] = arg[1]
        /\ \A i \in 1..Len(arg) :
              /\ \E j \in 1..i : FLe(arg[j], ret.val[i])
              /\ \E j \in 1..i : FLe(ret.val[i], arg[j])

\* C9: for 1 <= window <= len(v), mstd(v, window, sma(v, window))[i] is 0 at every
\* i < window-1 and at every i >= window-1 whose trailing window is constant.
C9_MstdZeroOnConstant ==
    (pc # "idle" /\ op = "mstd" /\ 1 <= window_size /\ window_size <= Len(arg)) =>
        /\ ret.ok
        /\ \A i \in 1..Len(arg) :
              /\ i < window_size => ret.val[i] = Zero
              /\ (i >= window_size /\ \A j \in (i - window_size + 1)..i : arg[j] = arg[i])
                    => ret.val[i] = Zero

\* C10: per_b(v) and bw(v) on an aggregate whose cache was made by bb_mut(v) return
\* what they return on a new aggregate with the same period and amplitude.
C10_CacheTransparent ==
    (pc = "returned" /\ op \in {"per_b", "bw"} /\ Computed /\ cached_input = Input(arg)) =>
        ret = IF op = "per_b"
              THEN per_b(new(period, amplitude), arg)
              ELSE bw(new(period, amplitude), arg)

====
